---- MODULE Spec2Model ----
(***************************************************************************)
(* Model of flickr_crawler.py: the photos_stream generator (paginated      *)
(* search, termination on a repeated page, per-hit resolution) driven by   *)
(* the __main__ loop that persists each yielded photo as <id>.jpg and      *)
(* <id>.json.  The generator and its consumer form one thread of control;  *)
(* pc is its position.  The remote service is nondeterministic: every call *)
(* draws its response from a small set.                                    *)
(***************************************************************************)
EXTENDS Integers, Sequences, FiniteSets, TLC

\* ------------------------------------------------------------------ bounds
MaxHits == 2     \* hits on one search page
MaxPages == 3    \* largest total-page count a search response declares
MaxRuns == 2     \* consecutive program runs on the same directory

\* the photo identifiers the remote service knows
Ids == {1, 2}
Exts == {"jpg", "json"}

\* ------------------------------------------------------- strings as data
\* A string is a sequence of characters.  Tags are sequences of code points
\* (what ord() returns), URLs are sequences of one-character strings.
S_Sunset_bang == <<83, 117, 110, 115, 101, 116, 33>>      \* "Sunset!"
S_auto_tag == <<97, 117, 116, 111, 45, 116, 97, 103>>     \* "auto-tag"
S_cafe_acute == <<99, 97, 102, 233>>                      \* "cafe" with e-acute
S_Sunset == <<83, 117, 110, 115, 101, 116>>               \* "Sunset"
S_sunset == <<115, 117, 110, 115, 101, 116>>              \* "sunset"
S_B52 == <<66, 53, 50>>                                   \* "B52"
S_b52 == <<98, 53, 50>>                                   \* "b52"
S_two_words == <<97, 32, 98>>                             \* "a b"

U_m_jpg == <<"m", ".", "j", "p", "g">>
U_n_jpeg == <<"n", ".", "j", "p", "e", "g">>
U_l_jpg == <<"l", ".", "j", "p", "g">>
U_s_jpg == <<"s", ".", "j", "p", "g">>
U_m_png == <<"m", ".", "p", "n", "g">>
U_m_JPG == <<"m", ".", "J", "P", "G">>
U_jpg == <<"j", "p", "g">>

SOURCE_SIZE == "Medium 640"

None == [none |-> TRUE]

\* --------------------------------------------------------- pure functions
\* fault variant: an error status is taken for a result
is_flickr_error_never(resp) == FALSE

\* fault variant: every response is taken for an error
is_flickr_error_always(resp) == TRUE

is_flickr_error(resp) == resp.stat # "ok"

is_ascii_alpha_num(c) ==
    \/ (65 <= c /\ c <= 90)
    \/ (97 <= c /\ c <= 122)
    \/ (48 <= c /\ c <= 57)

\* fault variant: every tag is taken as valid
is_valid_tag_any(tag) == TRUE

is_valid_tag(tag) == \A k \in 1..Len(tag) : is_ascii_alpha_num(tag[k])

\* str.lower() on one code point of the Latin-1 range
lower_char(c) ==
    IF (65 <= c /\ c <= 90) \/ (192 <= c /\ c <= 222 /\ c # 215)
    THEN c + 32
    ELSE c

lower(s) == [k \in 1..Len(s) |-> lower_char(s[k])]

RECURSIVE build_tags(_)
\* the list comprehension of lines 92-94, in listing order
build_tags(ts) ==
    IF ts = <<>> THEN <<>>
    ELSE LET t == Head(ts)
             rest == build_tags(Tail(ts))
         IN IF (~t.machine_tag) /\ is_valid_tag(t.raw)
            THEN <<lower(t.raw)>> \o rest
            ELSE rest

RECURSIVE find_label_last(_, _)
\* fault variant: the last match instead of the first
find_label_last(label, xs) ==
    IF xs = <<>> THEN None
    ELSE LET later == find_label_last(label, Tail(xs))
         IN IF later # None THEN later
            ELSE IF Head(xs).label = label THEN Head(xs)
            ELSE None

RECURSIVE find_label(_, _)
\* find(lambda size: size["label"] == label, xs): first match, or None
find_label(label, xs) ==
    IF xs = <<>> THEN None
    ELSE IF Head(xs).label = label THEN Head(xs)
    ELSE find_label(label, Tail(xs))

\* s[-n:]
suffix(s, n) == IF Len(s) <= n THEN s ELSE SubSeq(s, Len(s) - n + 1, Len(s))

\* fault variant: the test of the file name's ending is lost
is_jpeg_url_any(u) == TRUE

is_jpeg_url(u) ==
    ~(suffix(u, 4) # <<".", "j", "p", "g">>
      /\ suffix(u, 5) # <<".", "j", "p", "e", "g">>)

page_ids(hits) == {hits[k].id : k \in 1..Len(hits)}

\* fault variant: the membership test of line 46 is lost
already_known_never(id, known) == FALSE

already_known(id, known) == id \in known

\* fault variant: the comparison of line 39 never succeeds
same_results_never(this_ids, prev) == FALSE

\* fault variant: an empty page is never taken for a repeated one
same_results_nonempty(this_ids, prev) == this_ids = prev /\ this_ids # {}

same_results(this_ids, prev) == this_ids = prev

\* fault variant: the stop test lets the page numbered like the declared
\* total be requested
last_page_reached_past(pg, pages) == pg > pages

last_page_reached(pg, pages) == pg >= pages

\* fault variant: the directory listing is not used
existing_files_none(d) == {}

\* fault variant: only the .json files count, so an identifier with a lone
\* .jpg is not known
existing_files_json(d) == {f[1] : f \in {g \in d : g[2] = "json"}}

\* existing_files(dest_dir): base names of the files of the directory
existing_files(d) == {f[1] : f \in d}

\* os.path.isfile(jpg_file) or os.path.isfile(json_file)
file_exists(d, id) == <<id, "jpg">> \in d \/ <<id, "json">> \in d

photo_url(owner_id, id) ==
    <<"https://www.flickr.com/photos/", owner_id, "/", id, "/">>

\* ------------------------------------------------------- remote responses
\* One search hit: the fields of p the program reads (id, secret, owner, title)
Hit(i) == [id |-> i, secret |-> <<"secret", i>>, owner |-> <<"owner", i>>,
           title |-> <<"title", i>>]

RECURSIVE SeqsUpTo(_, _)
SeqsUpTo(S, n) ==
    IF n = 0 THEN {<<>>}
    ELSE LET shorter == SeqsUpTo(S, n - 1)
         IN shorter \cup {Append(q, x) : q \in {r \in shorter : Len(r) = n - 1}, x \in S}

HitSeqs == SeqsUpTo({Hit(i) : i \in Ids}, MaxHits)

SearchFail == [stat |-> "fail", photo |-> <<>>, pages |-> 0]

\* flickr.photos.search: an error status, or a page of hits with the declared
\* total-page count
SearchResponses ==
    {SearchFail} \cup
    {[stat |-> "ok", photo |-> h, pages |-> n] : h \in HitSeqs, n \in 0..MaxPages}

Tag(raw, machine) == [raw |-> raw, machine_tag |-> machine]

ExampleTags == <<Tag(S_Sunset_bang, FALSE), Tag(S_auto_tag, TRUE), Tag(S_cafe_acute, FALSE)>>

TagLists ==
    { <<>>,
      ExampleTags,
      <<Tag(S_Sunset, FALSE), Tag(S_B52, FALSE), Tag(S_two_words, FALSE)>>,
      <<Tag(S_B52, TRUE), Tag(S_Sunset, FALSE)>> }

InfoFail == [stat |-> "fail", owner |-> None, tags |-> <<>>]

\* flickr.photos.getInfo: an error status, or the owner's names and the tags
InfoResponses ==
    {InfoFail} \cup
    {[stat |-> "ok", owner |-> [path_alias |-> "ann", realname |-> "Ann A."],
      tags |-> ts] : ts \in TagLists}

Size(label, source) == [label |-> label, source |-> source]

SizeLists ==
    { <<Size("Square", U_s_jpg), Size("Medium 640", U_m_jpg), Size("Large", U_l_jpg)>>,
      <<Size("Square", U_s_jpg), Size("Large", U_l_jpg)>>,
      <<Size("Medium", U_s_jpg), Size("Medium 640", U_n_jpeg), Size("Medium 640", U_m_jpg)>>,
      <<Size("Large", U_l_jpg), Size("Medium 640", U_m_png)>>,
      <<Size("Medium 640", U_m_JPG)>>,
      <<Size("medium 640", U_l_jpg), Size("Medium 640", U_jpg)>>,
      <<>> }

SizesFail == [stat |-> "fail", size |-> <<>>]

\* flickr.photos.getSizes: an error status, or the listing of variants
SizesResponses ==
    {SizesFail} \cup {[stat |-> "ok", size |-> l] : l \in SizeLists}

\* ------------------------------------------------------------------ state
VARIABLES
    run,       \* number of the current program run
    pc,        \* position of the single thread of control
    dir,       \* dest_dir: the files present, as <<base name, extension>>
    ids,       \* the known-ID set shared by __main__ and photos_stream
    page,      \* photos_stream: page
    prev_ids,  \* photos_stream: prev_ids
    photos,    \* photos_stream: the last search response
    idx,       \* photos_stream: position of the for loop in photos (1-based)
    info,      \* photos_stream: getInfo response of the current hit
    sizes,     \* photos_stream: the last getSizes response
    source_url,\* photos_stream: URL of the selected variant
    out,       \* the pair (Photo, jpg) being consumed by __main__, or None
    call,      \* the network call issued by the last step, or NoCall
    log,       \* the last line printed by the last step, or "none"
    ids0,      \* history: ids as it was when photos_stream was called
    dir0,      \* history: dir as it was when this run started
    last_ok,   \* history: <<identifier set, declared total>> of the last ok
               \* search response of this run, <<>> before the first one
    totals,    \* history: the totals declared by the ok search responses of
               \* this run
    retried,   \* history: a search for the current page has failed
    yielded,   \* history: the photos yielded in this run, in order, each
               \* with the page and the position of its hit
    writes     \* history: completed write_file calls per file, all runs

vars == <<run, pc, dir, ids, page, prev_ids, photos, idx, info, sizes,
          source_url, out, call, log, ids0, dir0, last_ok, totals, retried,
          yielded, writes>>

NoCall == [kind |-> "none", page |-> 0, id |-> 0, url |-> <<>>]
SearchCall(pg) == [kind |-> "search", page |-> pg, id |-> 0, url |-> <<>>]
InfoCall(id) == [kind |-> "getInfo", page |-> 0, id |-> id, url |-> <<>>]
SizesCall(id) == [kind |-> "getSizes", page |-> 0, id |-> id, url |-> <<>>]
AssetCall(id, u) == [kind |-> "download", page |-> 0, id |-> id, url |-> u]

Final == {"done", "crashed", "killed"}

NoPhotos == [stat |-> "none", photo |-> <<>>, pages |-> 0]

Init ==
    /\ run = 1
    /\ pc = "start"
    /\ dir \in SUBSET (Ids \X Exts)
    /\ ids = {}
    /\ page = 0
    /\ prev_ids = {}
    /\ photos = NoPhotos
    /\ idx = 0
    /\ info = None
    /\ sizes = None
    /\ source_url = <<>>
    /\ out = None
    /\ call = NoCall
    /\ log = "none"
    /\ ids0 = {}
    /\ dir0 = dir
    /\ last_ok = <<>>
    /\ totals = {}
    /\ retried = FALSE
    /\ yielded = <<>>
    /\ writes = [f \in Ids \X Exts |-> 0]

\* fault variant: the page is walked from its end
p_reversed == photos.photo[Len(photos.photo) - idx + 1]

\* the hit the for loop is at
p == photos.photo[idx]

\* fault variant: a skip leaves the generator instead of the iteration
next_hit_return ==
    /\ idx' = idx + 1
    /\ info' = None
    /\ source_url' = <<>>
    /\ pc' = "done"

\* `continue` and the end of the for body: on to the next hit.  info and
\* source_url are assigned again before they are next read.
next_hit ==
    /\ idx' = idx + 1
    /\ info' = None
    /\ source_url' = <<>>
    /\ pc' = "hit"

\* ---------------------------------------------------------------- actions
\* __main__, lines 189-200: list the directory, then call photos_stream
\* (lines 26-27 run at the first next() of the generator)
Start ==
    /\ pc = "start"
    /\ ids' = existing_files(dir)
    /\ ids0' = existing_files(dir)
    /\ dir0' = dir
    /\ page' = 1
    /\ prev_ids' = {}
    /\ pc' = "search"
    /\ log' = "count"
    /\ call' = NoCall
    /\ UNCHANGED <<run, dir, photos, idx, info, sizes, source_url, out, last_ok,
                   totals, retried, yielded, writes>>

\* lines 28-42: one search request and the tests on its response
Search ==
    /\ pc = "search"
    /\ \E resp \in SearchResponses :
        /\ photos' = resp
        /\ call' = SearchCall(page)
        /\ IF is_flickr_error(resp)
           THEN /\ log' = "retry"
                /\ retried' = TRUE
                /\ UNCHANGED <<pc, prev_ids, idx, last_ok, totals>>
           ELSE IF same_results(page_ids(resp.photo), prev_ids)
           THEN /\ log' = "same"
                /\ pc' = "done"
                /\ last_ok' = <<page_ids(resp.photo), resp.pages>>
                /\ totals' = totals \cup {resp.pages}
                /\ UNCHANGED <<prev_ids, idx, retried>>
           ELSE /\ log' = "asking"
                /\ prev_ids' = page_ids(resp.photo)
                /\ idx' = 1
                /\ pc' = "hit"
                /\ last_ok' = <<page_ids(resp.photo), resp.pages>>
                /\ totals' = totals \cup {resp.pages}
                /\ UNCHANGED retried
    /\ UNCHANGED <<run, dir, ids, page, info, sizes, source_url, out, ids0, dir0,
                   yielded, writes>>

\* lines 44, 104-106: the for loop is exhausted; next page or return
EndOfPage ==
    /\ pc = "hit"
    /\ idx > Len(photos.photo)
    /\ page' = page + 1
    /\ pc' = IF last_page_reached(page + 1, photos.pages) THEN "done" ELSE "search"
    /\ sizes' = None
    /\ retried' = FALSE
    /\ call' = NoCall
    /\ log' = "none"
    /\ UNCHANGED <<run, dir, ids, prev_ids, photos, idx, info, source_url, out,
                   ids0, dir0, last_ok, totals, yielded, writes>>

\* lines 46-48: a hit whose identifier is known is skipped
SkipKnown ==
    /\ pc = "hit"
    /\ idx <= Len(photos.photo)
    /\ already_known(p.id, ids)
    /\ next_hit
    /\ sizes' = None
    /\ call' = NoCall
    /\ log' = "exists"
    /\ UNCHANGED <<run, dir, ids, page, prev_ids, photos, out, ids0, dir0,
                   last_ok, totals, retried, yielded, writes>>

\* lines 46, 50-56: the metadata call for an un-known hit
GetInfo ==
    /\ pc = "hit"
    /\ idx <= Len(photos.photo)
    /\ ~already_known(p.id, ids)
    /\ call' = InfoCall(p.id)
    /\ sizes' = None
    /\ \E resp \in InfoResponses :
        IF is_flickr_error(resp)
        THEN /\ log' = "no info"
             /\ next_hit
        ELSE /\ log' = "none"
             /\ info' = resp
             /\ pc' = "sizes"
             /\ UNCHANGED <<idx, source_url>>
    /\ UNCHANGED <<run, dir, ids, page, prev_ids, photos, out, ids0, dir0,
                   last_ok, totals, retried, yielded, writes>>

\* lines 58-79: the sizes call, the choice of the variant and the JPEG test
GetSizes ==
    /\ pc = "sizes"
    /\ call' = SizesCall(p.id)
    /\ \E resp \in SizesResponses :
        /\ sizes' = resp
        /\ IF is_flickr_error(resp)
           THEN /\ log' = "no sizes"
                /\ next_hit
           ELSE LET source == find_label(SOURCE_SIZE, resp.size)
                IN IF source = None
                   THEN /\ log' = "no image"
                        /\ next_hit
                   ELSE IF ~is_jpeg_url(source.source)
                   THEN /\ log' = "not jpeg"
                        /\ next_hit
                   ELSE /\ log' = "none"
                        /\ source_url' = source.source
                        /\ pc' = "download"
                        /\ UNCHANGED <<idx, info>>
    /\ UNCHANGED <<run, dir, ids, page, prev_ids, photos, out, ids0, dir0,
                   last_ok, totals, retried, yielded, writes>>

\* The Photo of lines 87-100
make_photo(hit, inf) ==
    [id |-> hit.id,
     title |-> hit.title,
     owner |-> [id |-> hit.owner, username |-> inf.owner.path_alias,
                name |-> inf.owner.realname],
     tags |-> build_tags(inf.tags),
     url |-> photo_url(hit.owner, hit.id)]

\* download_url (lines 120-122): the bytes served at the URL
download_url(u) == <<"bytes of", u>>

\* lines 81-100: the asset fetch; on success the Photo is built and yielded
Download ==
    /\ pc = "download"
    /\ call' = AssetCall(p.id, source_url)
    /\ \/ /\ log' = "download failed"
          /\ next_hit
          /\ sizes' = None
          /\ UNCHANGED <<out, yielded>>
       \/ /\ log' = "none"
          /\ out' = [photo |-> make_photo(p, info), jpg |-> download_url(source_url)]
          /\ yielded' = Append(yielded, [id |-> p.id, page |-> page, idx |-> idx])
          /\ pc' = "consume"
          /\ UNCHANGED <<idx, info, sizes, source_url>>
    /\ UNCHANGED <<run, dir, ids, page, prev_ids, photos, ids0, dir0, last_ok,
                   totals, retried, writes>>

\* __main__, lines 201-214: the existence re-check on the yielded photo.
\* The generator is suspended at line 100: it reads none of info, sizes and
\* source_url again before it assigns them.
Consume ==
    /\ pc = "consume"
    /\ IF file_exists(dir, out.photo.id)
       THEN /\ log' = "exists"
            /\ pc' = "resume"
       ELSE /\ log' = "saving"
            /\ pc' = "write_jpg"
    /\ info' = None
    /\ sizes' = None
    /\ source_url' = <<>>
    /\ call' = NoCall
    /\ UNCHANGED <<run, dir, ids, page, prev_ids, photos, idx, out, ids0, dir0,
                   last_ok, totals, retried, yielded, writes>>

\* the memory of a process that has not started or is gone, and the
\* history of its run
no_process ==
    /\ dir0' = dir'
    /\ ids' = {}
    /\ page' = 0
    /\ prev_ids' = {}
    /\ photos' = NoPhotos
    /\ idx' = 0
    /\ info' = None
    /\ sizes' = None
    /\ source_url' = <<>>
    /\ out' = None
    /\ call' = NoCall
    /\ log' = "none"
    /\ ids0' = {}
    /\ last_ok' = <<>>
    /\ totals' = {}
    /\ retried' = FALSE
    /\ yielded' = <<>>

\* fault variant: the exception of a failed write is swallowed and the loop
\* goes on with the next photo
write_file_swallow(ext, then) ==
    LET f == <<out.photo.id, ext>>
    IN \/ /\ dir' = dir \cup {f}
          /\ writes' = [writes EXCEPT ![f] = @ + 1]
          /\ pc' = then
          /\ call' = NoCall
          /\ log' = "none"
          /\ UNCHANGED <<run, ids, page, prev_ids, photos, idx, info, sizes,
                         source_url, out, ids0, dir0, last_ok, totals,
                         retried, yielded>>
       \/ /\ dir' \in {dir, dir \cup {f}}
          /\ pc' = "resume"
          /\ call' = NoCall
          /\ log' = "none"
          /\ UNCHANGED <<run, ids, page, prev_ids, photos, idx, info, sizes,
                         source_url, out, ids0, dir0, last_ok, totals,
                         retried, yielded, writes>>

\* write_file (lines 124-133) of one file of the photo being consumed: it
\* completes, or it raises, with the file created or not; the exception is
\* not caught and ends the process
write_file(ext, then) ==
    LET f == <<out.photo.id, ext>>
    IN \/ /\ dir' = dir \cup {f}
          /\ writes' = [writes EXCEPT ![f] = @ + 1]
          /\ pc' = then
          /\ call' = NoCall
          /\ log' = "none"
          /\ UNCHANGED <<run, ids, page, prev_ids, photos, idx, info, sizes,
                         source_url, out, ids0, dir0, last_ok, totals,
                         retried, yielded>>
       \/ /\ dir' \in {dir, dir \cup {f}}
          /\ pc' = "crashed"
          /\ no_process
          /\ UNCHANGED <<run, writes>>

\* fault variant: the first write goes to the .json
WriteJpg_to_json ==
    /\ pc = "write_jpg"
    /\ write_file("json", "write_json")

\* line 216
WriteJpg ==
    /\ pc = "write_jpg"
    /\ write_file("jpg", "write_json")

\* fault variant: the second write goes to the .jpg again
WriteJson_to_jpg ==
    /\ pc = "write_json"
    /\ write_file("jpg", "resume")

\* line 217
WriteJson ==
    /\ pc = "write_json"
    /\ write_file("json", "resume")

\* fault variant: line 102 is lost, the yielded identifier is not recorded
Resume_without_add ==
    /\ pc = "resume"
    /\ next_hit
    /\ sizes' = None
    /\ out' = None
    /\ call' = NoCall
    /\ log' = "none"
    /\ UNCHANGED <<run, dir, ids, page, prev_ids, photos, ids0, dir0, last_ok,
                   totals, retried, yielded, writes>>

\* line 102, reached when __main__ asks the generator for the next photo
Resume ==
    /\ pc = "resume"
    /\ ids' = ids \cup {p.id}
    /\ next_hit
    /\ sizes' = None
    /\ out' = None
    /\ call' = NoCall
    /\ log' = "none"
    /\ UNCHANGED <<run, dir, page, prev_ids, photos, ids0, dir0, last_ok,
                   totals, retried, yielded, writes>>

\* the process is terminated from outside, at any point of a run; only the
\* directory outlives it
Kill ==
    /\ pc \notin Final
    /\ pc' = "killed"
    /\ UNCHANGED <<run, dir, writes>>
    /\ no_process

\* the program is started again on the directory the last run left
NextRun ==
    /\ pc \in Final
    /\ run < MaxRuns
    /\ run' = run + 1
    /\ pc' = "start"
    /\ UNCHANGED <<dir, writes>>
    /\ no_process

Next ==
    \/ Start
    \/ Search
    \/ EndOfPage
    \/ SkipKnown
    \/ GetInfo
    \/ GetSizes
    \/ Download
    \/ Consume
    \/ WriteJpg
    \/ WriteJson
    \/ Resume
    \/ Kill
    \/ NextRun

Spec == Init /\ [][Next]_vars

\* a search that is answered without error
SearchOk == Search /\ ~is_flickr_error(photos')

\* a step of the program that is not a failed search: the interpreter runs
\* the single thread on, every call returns, and a retried search is
\* answered without error after finitely many tries
Progress ==
    \/ Start
    \/ SearchOk
    \/ EndOfPage
    \/ SkipKnown
    \/ GetInfo
    \/ GetSizes
    \/ Download
    \/ Consume
    \/ WriteJpg
    \/ WriteJson
    \/ Resume

LiveSpec == Spec /\ WF_vars(Progress)

\* ------------------------------------------------------------ properties
yielded_ids == {yielded[k].id : k \in 1..Len(yielded)}

\* the hit the for loop has just left behind
prev_hit == photos.photo[idx - 1]

item_calls == {"getInfo", "getSizes", "download"}

\* C1: during one run of photos_stream no identifier is yielded more than
\* once, whatever the search responses (hits repeated within a page or on a
\* later page, pages retried after an error).
C1_YieldedOnce ==
    \A j, k \in 1..Len(yielded) : j # k => yielded[j].id # yielded[k].id

\* C1 witness: on a later page, reached after a failed search, a hit whose
\* identifier was yielded earlier in the run has been met again and skipped.
C1_Witness ==
    /\ pc = "hit"
    /\ log = "exists"
    /\ page >= 2
    /\ retried
    /\ prev_hit.id \in yielded_ids
    /\ prev_hit.id \notin ids0

\* C2: no identifier that is in knownIds when photos_stream is called is
\* ever yielded.
C2_KnownNeverYielded ==
    \A k \in 1..Len(yielded) : yielded[k].id \notin ids0

\* C2 witness: a hit whose identifier was known at call time has been skipped
\* in a run that also yielded a photo.
C2_Witness ==
    /\ pc = "hit"
    /\ log = "exists"
    /\ prev_hit.id \in ids0
    /\ yielded # <<>>

\* C3: when an ok search response carries exactly the identifier set of the
\* previous ok response of the run, the sequence ends at once: no hit of that
\* page is processed, nothing more is yielded, no further call is issued;
\* failed responses in between leave the comparison alone (prev_ids is the
\* identifier set of the last ok response throughout).
C3_SamePageStops ==
    /\ [](prev_ids = IF last_ok = <<>> THEN {} ELSE last_ok[1])
    /\ [][(/\ pc = "search"
           /\ call' = SearchCall(page)
           /\ photos'.stat = "ok"
           /\ last_ok # <<>>
           /\ page_ids(photos'.photo) = last_ok[1])
          => (pc' = "done" /\ log' = "same" /\ UNCHANGED <<yielded, idx, ids, dir>>)]_vars
    /\ [][pc = "done" => (call' = NoCall /\ pc' = "start" /\ run' = run + 1)]_vars

\* C3 witness: the run has ended on a non-empty page equal to the previous
\* ok page, after a failed search for that page.
C3_Witness ==
    /\ pc = "done"
    /\ log = "same"
    /\ retried
    /\ page >= 2
    /\ photos.photo # <<>>

base_names(d) == {f[1] : f \in d}

\* C4: in a run started on the directory an earlier run left, no metadata,
\* sizes or asset call is issued and no file is written for an identifier
\* that had a file when the run started, and no file is written twice
\* across the runs.
C4_RerunIdempotent ==
    /\ [](call.kind \in item_calls => call.id \notin base_names(dir0))
    /\ [][\A f \in Ids \X Exts :
            (writes'[f] # writes[f] \/ ((f \in dir') # (f \in dir)))
            => f[1] \notin base_names(dir0)]_vars
    /\ [](\A f \in Ids \X Exts : writes[f] <= 1)

\* C4 witness: the second run meets a hit whose pair the first run wrote, and
\* skips it.
C4_Witness ==
    /\ run = 2
    /\ pc = "hit"
    /\ log = "exists"
    /\ writes[<<prev_hit.id, "jpg">>] = 1
    /\ writes[<<prev_hit.id, "json">>] = 1
    /\ <<prev_hit.id, "json">> \in dir0

\* C5: metadata, sizes and asset calls are issued only for hits whose
\* identifier is not in ids when the hit is processed; a known hit causes no
\* call; every photo yielded and handed back to the generator has had its
\* .jpg and its .json written exactly once.
C5_CallsOnlyForUnknown ==
    /\ [](call.kind \in item_calls => call.id \notin ids)
    /\ [][(pc = "hit" /\ idx <= Len(photos.photo) /\ p.id \in ids)
          => (call' = NoCall /\ UNCHANGED <<dir, writes>>
              /\ (pc' # "killed" => UNCHANGED yielded))]_vars
    /\ [](\A k \in 1..Len(yielded) :
            (k < Len(yielded) \/ out = None \/ pc = "resume")
            => /\ writes[<<yielded[k].id, "jpg">>] = 1
               /\ writes[<<yielded[k].id, "json">>] = 1
               /\ <<yielded[k].id, "jpg">> \in dir
               /\ <<yielded[k].id, "json">> \in dir)
    /\ [](\A i \in Ids : writes[<<i, "jpg">>] <= 1 /\ writes[<<i, "json">>] <= 1)

\* C5 witness: one page of two hits, the first known at start, the second
\* resolved, yielded and written as one pair; the page is finished.
C5_Witness ==
    /\ pc = "hit"
    /\ page = 1
    /\ Len(photos.photo) = 2
    /\ idx = 3
    /\ photos.photo[1].id \in ids0
    /\ yielded # <<>>
    /\ yielded[1].id = photos.photo[2].id
    /\ out = None
    /\ writes[<<photos.photo[2].id, "jpg">>] = 1
    /\ writes[<<photos.photo[2].id, "json">>] = 1

\* C6 as stated: for the tags "Sunset!" (not machine), "auto-tag" (machine)
\* and "cafe" with e-acute (not machine) the resolved tag list is ["sunset"].
C6_AsStated ==
    (pc = "consume" /\ info.tags = ExampleTags) => out.photo.tags = <<S_sunset>>

\* C6, amended: for those tags the resolved tag list is empty, "Sunset!"
\* being dropped too because of its "!"; a tag kept is lower-cased ("Sunset",
\* "B52", "a b" give "sunset", "b52").
C6_TagsFiltered ==
    /\ (pc = "consume" /\ info.tags = ExampleTags) => out.photo.tags = <<>>
    /\ (pc = "consume"
        /\ info.tags = <<Tag(S_Sunset, FALSE), Tag(S_B52, FALSE), Tag(S_two_words, FALSE)>>)
       => out.photo.tags = <<S_sunset, S_b52>>

\* C6 witness: a photo resolved from a metadata response with those tags
C6_Witness == pc = "consume" /\ info.tags = ExampleTags

\* position of the first variant labelled "Medium 640", 0 when there is none
first_medium_640(listing) ==
    LET hits == {k \in 1..Len(listing) : listing[k].label = "Medium 640"}
    IN IF hits = {} THEN 0 ELSE CHOOSE k \in hits : \A j \in hits : k <= j

\* C7: the asset URL used is the source of the first variant labelled
\* exactly "Medium 640" of the sizes listing; a listing without such a
\* variant makes the hit skipped, with no asset fetch and no yield.
C7_Medium640Selected ==
    /\ [](pc \in {"download", "consume"}
          => /\ sizes.stat = "ok"
             /\ first_medium_640(sizes.size) > 0
             /\ source_url = sizes.size[first_medium_640(sizes.size)].source
             /\ pc = "consume" => (/\ call = AssetCall(out.photo.id, source_url)
                                   /\ out.jpg = <<"bytes of", source_url>>))
    /\ [][(pc = "download" /\ call'.kind = "download")
          => call' = AssetCall(photos.photo[idx].id, source_url)]_vars
    /\ [][(/\ pc = "sizes"
           /\ call'.kind = "getSizes"
           /\ sizes'.stat = "ok"
           /\ first_medium_640(sizes'.size) = 0)
          => (/\ log' = "no image"
              /\ pc' = "hit"
              /\ idx' = idx + 1
              /\ UNCHANGED <<yielded, out, ids, dir, writes>>)]_vars

\* C7 witness: a photo yielded from a listing of three variants whose second
\* and third are both labelled "Medium 640"; the second one was fetched.
C7_Witness ==
    /\ pc = "consume"
    /\ Len(sizes.size) = 3
    /\ sizes.size[1].label # "Medium 640"
    /\ sizes.size[2].label = "Medium 640"
    /\ sizes.size[3].label = "Medium 640"
    /\ sizes.size[2].source # sizes.size[3].source
    /\ call.url = sizes.size[2].source

\* <<page, idx>> of one yield comes before that of another
before(a, b) == a.page < b.page \/ (a.page = b.page /\ a.idx < b.idx)

last_yielded == yielded[Len(yielded)]

\* C8: photos are yielded and persisted in the order of the search hits (page
\* by page, left to right within a page), and a yielded photo is persisted,
\* or skipped by the existence check, before any call for a later hit.
C8_OrderPreserved ==
    /\ [](\A j, k \in 1..Len(yielded) : j < k => before(yielded[j], yielded[k]))
    /\ [](out # None
          => /\ yielded # <<>>
             /\ last_yielded = [id |-> out.photo.id, page |-> page, idx |-> idx]
             /\ photos.photo[idx].id = out.photo.id)
    /\ [][(yielded' # yielded /\ pc' # "start" /\ pc' \notin Final)
          => (pc = "download" /\ out = None /\ out' # None
              /\ yielded' = Append(yielded, last_yielded'))]_vars
    /\ [][(writes' # writes \/ dir' # dir)
          => /\ out # None
             /\ \A f \in Ids \X Exts :
                  (writes'[f] # writes[f] \/ ((f \in dir') # (f \in dir)))
                  => f[1] = out.photo.id]_vars
    /\ [][call' # NoCall => out = None]_vars
    /\ [](pc = "resume" => file_exists(dir, out.photo.id))
    /\ [][(out # None /\ out' = None /\ pc' \notin Final) => pc = "resume"]_vars

\* C8 witness: two photos of one page yielded in the order of their hits, the
\* second one just persisted.
C8_Witness ==
    /\ pc = "resume"
    /\ log = "none"
    /\ Len(yielded) = 2
    /\ yielded[1].page = yielded[2].page
    /\ yielded[1].idx = 1
    /\ yielded[2].idx = 2
    /\ \A f \in Ids \X Exts : f[1] \in yielded_ids => (f \in dir /\ writes[f] = 1)

\* C9: a search that returns a non-ok status leaves page, prev_ids, ids and
\* the directory unchanged and issues no per-item call; the next call is a
\* search for the same page, and the retry is always possible again.
C9_SearchRetry ==
    /\ [][(pc = "search" /\ call'.kind = "search" /\ photos'.stat # "ok")
          => (/\ pc' = "search"
              /\ log' = "retry"
              /\ call' = SearchCall(page)
              /\ UNCHANGED <<page, prev_ids, ids, dir, writes, yielded, idx, out>>)]_vars
    /\ [](log = "retry" => (pc = "search" /\ photos.stat # "ok" /\ call = SearchCall(page)))
    /\ [][log = "retry"
          => ((call' = SearchCall(page) /\ page' = page) \/ pc' = "killed")]_vars
    /\ [](log = "retry" => ENABLED Search)

\* C9 witness: the search for the second page of a run that has yielded a
\* photo has failed.
C9_Witness ==
    /\ pc = "search"
    /\ log = "retry"
    /\ page = 2
    /\ prev_ids # {}
    /\ ids # {}
    /\ yielded # <<>>

SkipReasons == {"no info", "no sizes", "no image", "not jpeg", "download failed"}

\* C10: a per-item failure of any of the five kinds does not end the
\* sequence: the hit is not yielded, its identifier is not added to ids,
\* nothing is written, and processing goes on with the next hit.
C10_ItemFailureSkips ==
    /\ [][log' \in SkipReasons
          => (/\ pc \in {"hit", "sizes", "download"}
              /\ pc' = "hit"
              /\ idx' = idx + 1
              /\ call'.kind \in item_calls
              /\ call'.id = photos.photo[idx].id
              /\ out' = None
              /\ UNCHANGED <<ids, dir, writes, yielded, page, photos, prev_ids>>)]_vars
    /\ [](log \in SkipReasons
          => /\ pc = "hit"
             /\ call.id \notin ids
             /\ call.id \notin yielded_ids)
    /\ [][(pc = "hit" /\ call'.kind = "getInfo") => (log' = "no info" \/ pc' = "sizes")]_vars
    /\ [][(pc = "sizes" /\ call'.kind = "getSizes")
          => (log' \in {"no sizes", "no image", "not jpeg"} \/ pc' = "download")]_vars
    /\ [][(pc = "download" /\ call'.kind = "download")
          => (log' = "download failed" \/ pc' = "consume")]_vars

\* C10 witness: the first of two hits of a page was dropped because its
\* image is not a JPEG; the for loop is at the second hit.
C10_Witness ==
    /\ pc = "hit"
    /\ log = "not jpeg"
    /\ Len(photos.photo) = 2
    /\ idx = 2
    /\ prev_hit.id \notin ids
    /\ ~file_exists(dir, prev_hit.id)


\* ---------------------------------------------------------------------
\* C11: a write failure while a photo is persisted is fatal.  A step of a
\* write (lines 216-217) that completes no write, unless the process is
\* killed, is a failed write_file: it ends the process (the exception of
\* lines 124-133 is caught nowhere), whichever of the two files it was at.
\* From there the run does nothing more: the only step left is a new start
\* of the program, which issues no call and writes nothing, so the failed
\* photo is not retried and the later hits of the page are never processed.
C11_WriteFailureFatal ==
    /\ [][(pc \in {"write_jpg", "write_json"} /\ writes' = writes /\ pc' # "killed")
          => (/\ pc' = "crashed"
              /\ call' = NoCall
              /\ dir' \subseteq dir \cup {<<out.photo.id, "jpg">>, <<out.photo.id, "json">>}
              /\ out' = None /\ photos' = NoPhotos)]_vars
    /\ [][pc = "crashed"
          => (/\ pc' = "start"
              /\ run' = run + 1
              /\ call' = NoCall
              /\ UNCHANGED <<dir, writes, yielded>>)]_vars
    /\ [](pc = "crashed" => (call = NoCall /\ out = None /\ yielded = <<>>))

\* C11 witness: the process has died in the write of the .json of a photo
\* whose .jpg it had written.
C11_Witness ==
    /\ pc = "crashed"
    /\ \E i \in Ids : /\ writes[<<i, "jpg">>] = 1
                      /\ writes[<<i, "json">>] = 0
                      /\ <<i, "jpg">> \in dir
                      /\ <<i, "json">> \notin dir


\* ---------------------------------------------------------------------
\* the generator has returned at line 106, after a page that differed from
\* the one before it
stopped_by_count == pc = "done" /\ log # "same"

max(a, b) == IF a >= b THEN a ELSE b

consuming == pc \in {"consume", "write_jpg", "write_json", "resume"}

\* C13 as stated: while __main__ tests or writes the files of a yielded
\* photo, its identifier is in ids.  Violated: the generator is suspended
\* at the yield of line 100 and line 102 has not run.
C13_AsStated ==
    pc \in {"consume", "write_jpg", "write_json"} => out.photo.id \in ids

\* C13, amended: the identifier of a yielded photo is added to ids when the
\* generator is resumed (line 102), after __main__ has tested and written
\* the files of the photo and before any later hit is examined.  While
\* __main__ holds the photo its identifier is not in ids; the step that
\* resumes the generator adds exactly it; and whenever the generator is
\* running, every identifier it has yielded in the run is in ids.
C13_AddedOnResume ==
    /\ [](consuming => (/\ out.photo.id = p.id
                        /\ out.photo.id \notin ids
                        /\ yielded_ids \ {out.photo.id} \subseteq ids))
    /\ [][(pc = "resume" /\ pc' = "hit")
          => (ids' = ids \cup {out.photo.id} /\ idx' = idx + 1)]_vars
    /\ [](~consuming => yielded_ids \subseteq ids)

\* C13 witness: the .jpg of a yielded photo is written, its .json is about
\* to be, and the identifier is not in ids.
C13_Witness ==
    /\ pc = "write_json"
    /\ <<out.photo.id, "jpg">> \in dir
    /\ out.photo.id \in yielded_ids
    /\ out.photo.id \notin ids


\* ---------------------------------------------------------------------
\* the characters of u end with those of suf
ends_with(u, suf) ==
    \E k \in 1..(Len(u) + 1) : SubSeq(u, k, Len(u)) = suf

jpeg_ending(u) ==
    \/ ends_with(u, <<".", "j", "p", "g">>)
    \/ ends_with(u, <<".", "j", "p", "e", "g">>)

\* the listing of an ok sizes response has a "Medium 640" entry, and this
\* is the source of the first one
selected_url(resp) == resp.size[first_medium_640(resp.size)].source

has_medium_640(resp) ==
    /\ ~is_flickr_error(resp)
    /\ first_medium_640(resp.size) > 0

\* C14: the calls for a hit come in the order getInfo, getSizes, download,
\* and a short-circuit issues none of the later ones.  getInfo is the call
\* of a hit not yet known for which nothing was asked; getSizes directly
\* follows the getInfo of the same hit, which was ok; the download directly
\* follows the getSizes of the same hit, which was ok, listed "Medium 640"
\* and selected a URL ending in ".jpg" or ".jpeg", and it fetches that URL.
\* A failed getInfo, a failed getSizes, a listing without "Medium 640" and
\* a selected URL with another ending (".png", ".JPG") each move to the
\* next hit in the very step of the call.
C14_CallOrder ==
    /\ [][call'.kind = "getInfo"
          => (pc = "hit" /\ call'.id = p.id /\ p.id \notin ids /\ info = None)]_vars
    /\ [][call'.kind = "getSizes"
          => (/\ pc = "sizes"
              /\ call = InfoCall(p.id)
              /\ call'.id = p.id
              /\ info # None
              /\ ~is_flickr_error(info))]_vars
    /\ [][call'.kind = "download"
          => (/\ pc = "download"
              /\ call = SizesCall(p.id)
              /\ call'.id = p.id
              /\ has_medium_640(sizes)
              /\ jpeg_ending(selected_url(sizes))
              /\ call'.url = selected_url(sizes))]_vars
    /\ [][(call'.kind = "getInfo" /\ pc' # "sizes")
          => (log' = "no info" /\ pc' = "hit" /\ idx' = idx + 1)]_vars
    /\ [][(call'.kind = "getSizes" /\ is_flickr_error(sizes'))
          => (log' = "no sizes" /\ pc' = "hit" /\ idx' = idx + 1)]_vars
    /\ [][(call'.kind = "getSizes" /\ ~is_flickr_error(sizes') /\ ~has_medium_640(sizes'))
          => (log' = "no image" /\ pc' = "hit" /\ idx' = idx + 1)]_vars
    /\ [][(call'.kind = "getSizes" /\ has_medium_640(sizes')
           /\ ~jpeg_ending(selected_url(sizes')))
          => (log' = "not jpeg" /\ pc' = "hit" /\ idx' = idx + 1)]_vars
    /\ [](pc = "hit" => (info = None /\ source_url = <<>>))

\* C14 witness: the sizes response of a hit selected a URL ending in
\* ".png"; the hit was left with getSizes as its last call.
C14_Witness ==
    /\ pc = "hit"
    /\ log = "not jpeg"
    /\ call = SizesCall(prev_hit.id)
    /\ has_medium_640(sizes)
    /\ selected_url(sizes) = U_m_png


\* ---------------------------------------------------------------------
Files == Ids \X Exts

\* C15: no existing file is overwritten and the pair of an identifier is
\* written at most once.  The write of the .jpg starts only when neither
\* file of the photo exists (the test of line 205 was made on them); the
\* .json is written when it does not exist and the only file of the photo
\* is the .jpg this same iteration has written; a completed write creates a
\* file that was not there, under the name of the photo __main__ holds; no
\* file is removed; and no file is written twice, in a run or over the runs.
C15_NoOverwrite ==
    /\ [](pc = "write_jpg" => ~file_exists(dir, out.photo.id))
    /\ [](pc = "write_json"
          => (/\ <<out.photo.id, "json">> \notin dir
              /\ <<out.photo.id, "jpg">> \in dir
              /\ writes[<<out.photo.id, "jpg">>] = 1
              /\ ~file_exists(dir0, out.photo.id)))
    /\ [][\A f \in Files :
            writes'[f] # writes[f]
            => (/\ f \notin dir
                /\ f \in dir'
                /\ writes'[f] = writes[f] + 1
                /\ f[1] = out.photo.id
                /\ pc \in {"write_jpg", "write_json"})]_vars
    /\ [][dir \subseteq dir']_vars
    /\ [](\A f \in Files : writes[f] <= 1)

\* C15 witness: both files of a photo have been written, once each, in a
\* directory that held files of another identifier when the run started.
C15_Witness ==
    /\ pc = "resume"
    /\ writes[<<out.photo.id, "jpg">>] = 1
    /\ writes[<<out.photo.id, "json">>] = 1
    /\ ~file_exists(dir0, out.photo.id)
    /\ \E j \in Ids : j # out.photo.id /\ file_exists(dir0, j)


\* ---------------------------------------------------------------------
\* the .jpg of i is in directory d without its .json
partial(d, i) == <<i, "jpg">> \in d /\ <<i, "json">> \notin d

\* C16: a partial write is never repaired.  When a run starts on a
\* directory that holds the .jpg of an identifier without its .json, as a
\* run halted between lines 216 and 217 leaves it, the run issues no
\* getInfo, getSizes or download call for the identifier, never yields it
\* and never writes its .json; the directory is as partial at the end of
\* the run, so the same holds in every later run.
C16_PartialNeverRepaired ==
    \A i \in Ids :
        partial(dir0, i)
        => (/\ partial(dir, i)
            /\ writes[<<i, "json">>] = 0
            /\ (pc \notin {"start"} \cup Final => i \in ids)
            /\ (call.kind \in item_calls => call.id # i)
            /\ i \notin yielded_ids
            /\ (out # None => out.photo.id # i))

\* C16 witness: in a later run, a hit whose .jpg was written by an earlier
\* run that halted before the .json is skipped as known.
C16_Witness ==
    /\ run > 1
    /\ pc = "hit"
    /\ idx > 1
    /\ log = "exists"
    /\ partial(dir, prev_hit.id)
    /\ writes[<<prev_hit.id, "jpg">>] = 1
    /\ writes[<<prev_hit.id, "json">>] = 0


\* ---------------------------------------------------------------------
\* every .json of directory d has its .jpg
paired(d) == \A i \in Ids : <<i, "json">> \in d => <<i, "jpg">> \in d

\* C17: the .jpg is written before the .json (lines 216-217), so no step
\* of the program, a failed write and a halt between the two writes
\* included, takes a directory in which every .json has its .jpg to one in
\* which some .json has none: started on such a directory, every reachable
\* directory is such a one.  The .json of a photo is written only when its
\* .jpg is there.
C17_AssetBeforeMetadata ==
    /\ [][paired(dir) => paired(dir')]_vars
    /\ [][\A i \in Ids :
            (<<i, "json">> \in dir' /\ <<i, "json">> \notin dir)
            => (<<i, "jpg">> \in dir /\ pc = "write_json")]_vars

\* C17 witness: a run was halted between the two writes of a photo: its
\* .jpg is in the directory without its .json, and every .json has its .jpg.
C17_Witness ==
    /\ pc \in {"killed", "crashed"}
    /\ paired(dir)
    /\ \E i \in Ids : /\ partial(dir, i)
                      /\ writes[<<i, "jpg">>] = 1
                      /\ writes[<<i, "json">>] = 0
    /\ \E j \in Ids : writes[<<j, "json">>] = 1


\* ---------------------------------------------------------------------
\* the largest total declared by an ok response of the run, 0 before one
max_total == IF totals = {} THEN 0 ELSE CHOOSE t \in totals : \A u \in totals : u <= t

\* C18: under LiveSpec (no search fails forever, every call returns) each
\* run ends; it ends otherwise than by the return of the generator only by
\* a kill or a failed write; every page searched has a number at most
\* max(1, N - 1), N the largest total declared so far; a search answered
\* without error is left, and the search is entered only with page 1 or a
\* page number one higher, so at most max(1, N - 1) pages are fetched.
\* A search answered with an error leaves the generator at the same search
\* of the same page, and the only way past a page is an answer without
\* error: while the search of a page fails the run neither ends nor
\* advances.
C18_Terminates ==
    /\ (pc = "start") ~> (pc \in Final)
    /\ [][(pc \notin Final /\ pc' \in Final /\ pc' # "done")
          => (\/ pc' = "killed"
              \/ (pc \in {"write_jpg", "write_json"} /\ writes' = writes))]_vars
    /\ [](call.kind = "search" => call.page <= max(1, max_total - 1))
    /\ [][(call'.kind = "search" /\ ~is_flickr_error(photos'))
          => pc' \in {"hit", "done"}]_vars
    /\ [][(pc' = "search" /\ pc # "search")
          => (\/ (pc = "start" /\ page' = 1)
              \/ (pc = "hit" /\ page' = page + 1))]_vars
    /\ [][(pc = "search" /\ is_flickr_error(photos') /\ pc' # "killed")
          => (pc' = "search" /\ page' = page /\ call' = SearchCall(page))]_vars
    /\ [][(pc = "search" /\ pc' \notin {"search", "killed"})
          => (~is_flickr_error(photos') /\ call' = SearchCall(page))]_vars

\* C18 witness: a run has ended by the return of the generator, at its
\* second page, whose search had failed and was retried.
C18_Witness ==
    /\ pc = "done"
    /\ page = 2
    /\ retried
    /\ call = SearchCall(2)
    /\ yielded # <<>>


\* ---------------------------------------------------------------------
\* C19: the test of line 205 never finds a file.  Only this process changes
\* the directory, so whenever __main__ receives a yielded photo neither its
\* .jpg nor its .json exists and the identifier had no file when the run
\* started; the step of the test always goes on to the writes, never to the
\* "already exists" skip; and a photo for which __main__ asks the generator
\* for the next one has had both files written.
C19_ExistsNeverFires ==
    /\ [](pc = "consume"
          => (/\ ~file_exists(dir, out.photo.id)
              /\ ~file_exists(dir0, out.photo.id)
              /\ out.photo.id \notin ids0))
    /\ [][(pc = "consume" /\ pc' # "killed")
          => (pc' = "write_jpg" /\ log' = "saving")]_vars
    /\ [](pc = "resume"
          => (/\ log # "exists"
              /\ <<out.photo.id, "jpg">> \in dir
              /\ <<out.photo.id, "json">> \in dir
              /\ writes[<<out.photo.id, "jpg">>] = 1
              /\ writes[<<out.photo.id, "json">>] = 1))

\* C19 witness: a photo is yielded in a later run, on a directory that
\* holds the files of another identifier, written by an earlier run.
C19_Witness ==
    /\ pc = "consume"
    /\ run > 1
    /\ \E j \in Ids : /\ j # out.photo.id
                      /\ file_exists(dir0, j)
                      /\ writes[<<j, "jpg">>] = 1


====
